---- MODULE Spec2Model ----
(***************************************************************************)
(* A model of karalabe/bufioprop: the ring-buffered asynchronous pipe of   *)
(* pipe.go (PipeReader / PipeWriter) and the Copy function of bufio.go.    *)
(*                                                                         *)
(* One producer thread, one consumer thread and one closing thread per     *)
(* pipe half run interleaved.  Every atomic load, atomic add, channel      *)
(* send/receive/close of the source is one step; the copy into or out of   *)
(* the slice a thread owns is taken together with the load of free that    *)
(* sized the slice (the copy touches no cell the other side may touch, so  *)
(* it commutes with the other side's steps); in mode "st" the load and the *)
(* copy are two steps, the copy working from the value loaded, which the   *)
(* other side may have overtaken; in mode "i32" only the index arithmetic  *)
(* of Write and Read is kept, on rings of up to 2^31 - 1 cells, every      *)
(* int32 held as two 16-bit halves; in mode "pp" one task calls ReadFrom   *)
(* and closes the write half with its result while another calls WriteTo.  *)
(* Bytes carry their position                                              *)
(* in the stream as value (the k-th byte taken from the producer has value *)
(* k), so loss, duplication and reordering are visible.  A returned call   *)
(* keeps only its result; its dead locals are cleared.  The spin loops    *)
(* are taken at their last reload of free: the earlier reloads change      *)
(* nothing but the loop counter.                                           *)
(***************************************************************************)
EXTENDS Integers, Sequences, FiniteSets, TLC

\* ---------------------------------------------------------------- bounds
MaxSize == 2
MaxBytes == 3
MaxSinkFaults == 1
MaxWideOps == 4

\* ---------------------------------------------------------------- errors
NoErr == "nil"
EOF == "io.EOF"
ErrClosedPipe == "ErrClosedPipe"
ErrShortWrite == "io.ErrShortWrite"
SrcErr == "SrcErr"
SinkErr == "SinkErr"
WCloseErr == "WCloseErr"
RCloseErr == "RCloseErr"

VARIABLES
  mode,       \* the client: "rw" drives a Pipe() through Write and Read, "rf"
              \* through ReadFrom and Read, "wt" through Write and WriteTo;
              \* "copy" is one call of Copy()
  size,       \* p.size / size
  buffer,     \* p.buffer / buf, indexed 0..size-1
  free,       \* p.free / free (atomic)
  inPos,      \* p.inPos / inPos
  outPos,     \* p.outPos / outPos
  inWake,     \* tokens in the depth-1 channel the producer waits on
  outWake,    \* tokens in the depth-1 channel the consumer waits on
  inQuit,     \* TRUE once the channel inQuit is closed
  outQuit,    \* TRUE once the channel outQuit is closed
  inErr,      \* p.inErr
  outErr,     \* p.outErr
  panicked,   \* the process died of "close of closed channel"
  prod,       \* the producer thread: its call, locals and last result
  cons,       \* the consumer thread: its call, locals and last result
  wcl,        \* the thread calling PipeWriter.Close / CloseWithError
  main,       \* Copy's calling goroutine
  failure,    \* Copy's named result failure
  committed,  \* history: bytes committed to the ring so far
  delivered,  \* history: values handed to the consumer or sink, in order
  hist        \* history: flags about what has happened

vars == <<mode, size, buffer, free, inPos, outPos, inWake, outWake, inQuit,
          outQuit, inErr, outErr, panicked, prod, cons, wcl, main,
          failure, committed, delivered, hist>>

\* ------------------------------------------------------- pure helpers
Min(a, b) == IF a < b THEN a ELSE b

\* a faulty variant of Wrap: the cursor is wrapped one cell too late
WrapLate(pos) == IF pos > size THEN pos - size ELSE pos

\* pipe.go:184-187, 199-202; bufio.go:69-72, 142-145
Wrap(pos) == IF pos >= size THEN pos - size ELSE pos

\* a faulty variant of WriteLimit: the slice is not cut at the buffer's end
WriteLimitNoEnd(sf, want) ==
  IF inPos + sf > inPos + want THEN inPos + want ELSE inPos + sf

\* pipe.go:287-293: the end of the slice write fills
WriteLimit(sf, want) ==
  LET l1 == inPos + sf
      l2 == IF l1 > size THEN size ELSE l1
  IN  IF l2 > inPos + want THEN inPos + want ELSE l2

\* pipe.go:314-317: the end of the slice readFrom hands to the source
ReadFromLimit(sf) ==
  LET l1 == inPos + sf
  IN  IF l1 > size THEN size ELSE l1

\* a faulty variant of ReadLimit: the slice is not cut to the occupied cells
ReadLimitNoFree(sf, want) ==
  IF size > outPos + want THEN outPos + want ELSE size

\* a faulty variant of ReadLimit: the slice is not cut to the length of the
\* caller's buffer
ReadLimitNoCap(sf, want) ==
  LET l1 == outPos + size - sf
  IN  IF l1 > size THEN size ELSE l1

\* pipe.go:226-232: the end of the slice read copies out
ReadLimit(sf, want) ==
  LET l1 == outPos + size - sf
      l2 == IF l1 > size THEN size ELSE l1
  IN  IF l2 > outPos + want THEN outPos + want ELSE l2

\* pipe.go:252-255: the end of the slice writeTo hands to the sink
WriteToLimit(sf) ==
  LET l1 == outPos + size - sf
  IN  IF l1 > size THEN size ELSE l1

\* copy(p.buffer[from:to], data): the next stream values land in the cells
Fill(from, to, first) ==
  [k \in DOMAIN buffer |->
     IF from <= k /\ k < to THEN first + (k - from) ELSE buffer[k]]

\* p.buffer[from:from+n] as a sequence
Cells(from, n) == [j \in 1..n |-> buffer[from + j - 1]]

IsPrefix(s, t) ==
  /\ Len(s) <= Len(t)
  /\ \A j \in 1..Len(s) : s[j] = t[j]

\* the stream the producer has committed: 1, 2, ..., committed
Accepted == [k \in 1..committed |-> k]

\* ------------------------------------------------------------ initial state
ProdInit ==
  [pc |-> "idle", op |-> "none", b |-> 0, n |-> 0, nr |-> 0,
   rerr |-> NoErr, err |-> NoErr, rc0 |-> FALSE, iq0 |-> FALSE,
   base |-> 0, sf |-> 0]

ConsInit ==
  [pc |-> "idle", op |-> "none", want |-> 0, n |-> 0, nw |-> 0,
   err |-> NoErr, serr |-> NoErr, oq0 |-> FALSE, rc0 |-> FALSE,
   base |-> 0, sf |-> 0]

HistInit ==
  [src |-> "open", sinkFaults |-> 0, rclosed |-> FALSE, reclosed |-> FALSE,
   first |-> NoErr]

\* pipe.go:47-60 (Pipe) and bufio.go:22-35 (Copy's locals)
InitCommon ==
  /\ size \in 1..MaxSize
  /\ buffer = [k \in 0..(size - 1) |-> 0]
  /\ free = size
  /\ inPos = 0
  /\ outPos = 0
  /\ inWake = 0
  /\ outWake = 0
  /\ inQuit = FALSE
  /\ outQuit = FALSE
  /\ inErr = NoErr
  /\ outErr = NoErr
  /\ panicked = FALSE
  /\ wcl = "idle"
  /\ failure = NoErr
  /\ committed = 0
  /\ delivered = <<>>
  /\ hist = HistInit

InitPipe ==
  /\ mode \in {"rw", "rf", "wt"}
  /\ InitCommon
  /\ prod = ProdInit
  /\ cons = ConsInit
  /\ main = [pc |-> "none", n |-> 0, err |-> NoErr]

\* bufio.go:38, 92, 156: both goroutines started, the caller waiting
InitCopy ==
  /\ mode = "copy"
  /\ InitCommon
  /\ prod = [ProdInit EXCEPT !.pc = "load", !.op = "copy"]
  /\ cons = [ConsInit EXCEPT !.pc = "load", !.op = "copy"]
  /\ main = [pc |-> "wait", n |-> 0, err |-> NoErr]

Init == InitPipe \/ InitCopy

\* Pipe(size) with Write and Read as clients, the load of free and the copy
\* it sizes taken as two steps
InitStale ==
  /\ mode = "st"
  /\ InitCommon
  /\ prod = ProdInit
  /\ cons = ConsInit
  /\ main = [pc |-> "none", n |-> 0, err |-> NoErr]

\* ------------------------------------------------------------ frames
ringVars == <<size, buffer, free, inPos, outPos>>
chanVars == <<inWake, outWake, inQuit, outQuit, inErr, outErr>>
copyVars == <<main, failure>>

\* -------------------------------------------------------- source and sink
\* the source of ReadFrom / Copy, called with a slice of m cells: it returns
\* nr bytes and an error; at most MaxBytes bytes come out of it in all
SourceReads(m) ==
  LET left == MaxBytes - committed
      top == Min(m, left)
  IN  {<<k, NoErr>> : k \in 1..top}
        \cup {<<k, e>> : k \in 0..top, e \in {EOF, SrcErr}}

\* the source after a read that returned err: a source that has reported
\* io.EOF or failed is not read again
SourceAfter(err) ==
  IF err = EOF THEN "eof" ELSE IF err = SrcErr THEN "err" ELSE hist.src

\* the sink of WriteTo / Copy, called with m bytes: it takes nw of them and
\* returns an error or none (nw < m without an error is a short write)
SinkWrites(m) ==
  {<<m, NoErr>>}
    \cup IF hist.sinkFaults < MaxSinkFaults
         THEN {<<k, SinkErr>> : k \in 0..m}
                \cup {<<k, NoErr>> : k \in 0..(m - 1)}
         ELSE {}

SinkFault(w, m) == w[2] # NoErr \/ w[1] # m

\* a producer call returns (n, err)
ProdRet(n, b, err) ==
  [prod EXCEPT !.pc = "ret", !.nr = 0, !.rerr = NoErr,
               !.n = n, !.b = b, !.err = err]

\* a consumer call returns (n, err)
ConsRet(n, err) ==
  [cons EXCEPT !.pc = "ret", !.nw = 0, !.want = 0,
               !.n = n, !.err = err]

\* ================================================================ pipe.go
\* ---------------------------------------------------------- producer side

\* pipe.go:272-280: Write enters; the short circuit on inQuit
WriteStart(len) ==
  /\ mode \in {"rw", "wt", "st"}
  /\ ~panicked
  /\ prod.pc \in {"idle", "ret"}
  /\ len >= 1
  /\ LET base == [ProdInit EXCEPT !.op = "write", !.b = len,
                                   !.rc0 = hist.rclosed, !.iq0 = inQuit,
                                   !.base = committed]
     IN  prod' = IF inQuit
                 THEN [base EXCEPT !.pc = "ret", !.err = ErrClosedPipe]
                 ELSE [base EXCEPT !.pc = "load"]
  /\ UNCHANGED <<mode, ringVars, chanVars, panicked, cons, wcl,
                 copyVars, committed, delivered, hist>>

\* pipe.go:306-309: ReadFrom enters (no short circuit)
ReadFromStart ==
  /\ mode \in {"rf", "pp"}
  /\ ~panicked
  /\ prod.pc \in {"idle", "ret"}
  /\ hist.src = "open"
  /\ prod' = [ProdInit EXCEPT !.op = "readFrom", !.pc = "load",
                               !.rc0 = hist.rclosed, !.iq0 = inQuit,
                               !.base = committed]
  /\ UNCHANGED <<mode, ringVars, chanVars, panicked, cons, wcl,
                 copyVars, committed, delivered, hist>>

\* pipe.go:287-296: write copies into the free slice sized by safeFree
WriteCopy(safeFree) ==
  LET limit == WriteLimit(safeFree, prod.b)
      nr == limit - inPos
  IN  /\ buffer' = Fill(inPos, limit, committed + 1)
      /\ prod' = [prod EXCEPT !.pc = "adv", !.nr = nr, !.sf = 0,
                              !.b = prod.b - nr, !.n = prod.n + nr]
      /\ UNCHANGED hist

\* a faulty variant of ReadFromRead: the source's error is looked at before
\* the bytes that came with it are committed
ReadFromReadErrFirst(safeFree) ==
  LET limit == ReadFromLimit(safeFree)
  IN  \E r \in SourceReads(limit - inPos) :
        /\ buffer' = Fill(inPos, inPos + r[1], committed + 1)
        /\ prod' = IF r[2] = NoErr
                   THEN [prod EXCEPT !.pc = "adv", !.nr = r[1],
                                     !.rerr = r[2], !.n = prod.n + r[1]]
                   ELSE ProdRet(prod.n + r[1], 0,
                                IF r[2] = EOF THEN NoErr ELSE r[2])
        /\ hist' = [hist EXCEPT !.src = SourceAfter(r[2])]

\* pipe.go:314-319: readFrom lets the source fill the free slice
ReadFromRead(safeFree) ==
  LET limit == ReadFromLimit(safeFree)
  IN  \E r \in SourceReads(limit - inPos) :
        /\ buffer' = Fill(inPos, inPos + r[1], committed + 1)
        /\ prod' = [prod EXCEPT !.pc = "adv", !.nr = r[1],
                                !.rerr = r[2], !.n = prod.n + r[1]]
        /\ hist' = [hist EXCEPT !.src = SourceAfter(r[2])]

\* pipe.go:282-285 / 309-312: inputWait returned (safeFree, nil)
InputGo(safeFree) ==
  IF mode = "st"
  THEN /\ prod' = [prod EXCEPT !.pc = "copy", !.sf = safeFree]
       /\ UNCHANGED <<buffer, hist>>
  ELSE IF prod.op = "write" THEN WriteCopy(safeFree)
                            ELSE ReadFromRead(safeFree)

\* pipe.go:287-294: write copies into the slice sized by the value of free
\* that inputWait returned
InputCopy ==
  /\ mode = "st"
  /\ ~panicked
  /\ prod.pc = "copy"
  /\ WriteCopy(prod.sf)
  /\ UNCHANGED <<mode, size, free, inPos, outPos, chanVars, panicked, cons,
                 wcl, copyVars, committed, delivered>>

\* pipe.go:125, 133, 145: inputWait's first load of free
InputWaitLoad ==
  /\ mode # "copy"
  /\ ~panicked
  /\ prod.pc = "load"
  /\ IF free = 0
     THEN /\ prod' = [prod EXCEPT !.pc = "spin"]
          /\ UNCHANGED <<buffer, hist>>
     ELSE InputGo(free)
  /\ UNCHANGED <<mode, size, free, inPos, outPos, chanVars, panicked, cons,
                 wcl, copyVars, committed, delivered>>

\* pipe.go:128-133: the spin loop. A reload that finds free unchanged alters
\* nothing but the loop counter, so the loop is taken at its last reload: the one
\* that finds the buffer usable, or the maxSpin-th, which leads to the select
InputWaitSpin ==
  /\ mode # "copy"
  /\ ~panicked
  /\ prod.pc = "spin"
  /\ IF free = 0
     THEN /\ prod' = [prod EXCEPT !.pc = "select"]
          /\ UNCHANGED <<buffer, hist>>
     ELSE InputGo(free)
  /\ UNCHANGED <<mode, size, free, inPos, outPos, chanVars, panicked, cons,
                 wcl, copyVars, committed, delivered>>

\* pipe.go:134-136: the select receives the wake token and retries
InputWaitWake ==
  /\ mode # "copy"
  /\ ~panicked
  /\ prod.pc = "select"
  /\ inWake = 1
  /\ inWake' = 0
  /\ prod' = [prod EXCEPT !.pc = "load"]
  /\ UNCHANGED <<mode, ringVars, outWake, inQuit, outQuit, inErr, outErr,
                 panicked, cons, wcl, copyVars, committed, delivered, hist>>

\* pipe.go:138-142 with pipe.go:283-285 / 310-312: a quit channel is closed
InputWaitQuit ==
  /\ mode # "copy"
  /\ ~panicked
  /\ prod.pc = "select"
  /\ outQuit \/ inQuit
  /\ prod' = ProdRet(prod.n, prod.b, ErrClosedPipe)
  /\ UNCHANGED <<mode, ringVars, chanVars, panicked, cons, wcl,
                 copyVars, committed, delivered, hist>>

\* pipe.go:183-188: inputAdvance moves inPos and subtracts from free
InputAdvance ==
  /\ mode # "copy"
  /\ ~panicked
  /\ prod.pc = "adv"
  /\ inPos' = Wrap(inPos + prod.nr)
  /\ free' = free - prod.nr
  /\ committed' = committed + prod.nr
  /\ prod' = [prod EXCEPT !.pc = "sig", !.nr = 0]
  /\ UNCHANGED <<mode, size, buffer, outPos, chanVars, panicked, cons,
                 wcl, copyVars, delivered, hist>>

\* pipe.go:190-193: inputAdvance's non-blocking send on outWake; then the
\* caller's loop test (pipe.go:280, 301) or error test (pipe.go:323-328)
InputSignal ==
  /\ mode # "copy"
  /\ ~panicked
  /\ prod.pc = "sig"
  /\ outWake' = 1
  /\ prod' =
       IF prod.op = "write"
       THEN IF prod.b > 0
            THEN [prod EXCEPT !.pc = "load"]
            ELSE ProdRet(prod.n, 0, NoErr)
       ELSE IF prod.rerr = EOF
            THEN ProdRet(prod.n, 0, NoErr)
            ELSE IF prod.rerr # NoErr
                 THEN ProdRet(prod.n, 0, prod.rerr)
                 ELSE [prod EXCEPT !.pc = "load"]
  /\ UNCHANGED <<mode, ringVars, inWake, inQuit, outQuit, inErr, outErr,
                 panicked, cons, wcl, copyVars, committed, delivered, hist>>

\* ---------------------------------------------------------- consumer side

\* a faulty variant of ReadStart: Read enters without looking at outQuit
ReadStartNoCheck(want) ==
  /\ mode \in {"rw", "rf", "st"}
  /\ ~panicked
  /\ cons.pc \in {"idle", "ret"}
  /\ cons' = [ConsInit EXCEPT !.op = "read", !.oq0 = outQuit, !.rc0 = hist.rclosed,
                               !.base = Len(delivered), !.pc = "load",
                               !.want = want]
  /\ UNCHANGED <<mode, ringVars, chanVars, panicked, prod, wcl,
                 copyVars, committed, delivered, hist>>

\* pipe.go:213-221: Read enters; the short circuit on outQuit
ReadStart(want) ==
  /\ mode \in {"rw", "rf", "st"}
  /\ ~panicked
  /\ cons.pc \in {"idle", "ret"}
  /\ LET base == [ConsInit EXCEPT !.op = "read", !.oq0 = outQuit, !.rc0 = hist.rclosed,
                                   !.base = Len(delivered)]
     IN  cons' = IF outQuit
                 THEN [base EXCEPT !.pc = "ret", !.err = ErrClosedPipe]
                 ELSE [base EXCEPT !.pc = "load", !.want = want]
  /\ UNCHANGED <<mode, ringVars, chanVars, panicked, prod, wcl,
                 copyVars, committed, delivered, hist>>

\* pipe.go:241-244: WriteTo enters (no short circuit)
WriteToStart ==
  /\ mode \in {"wt", "pp"}
  /\ ~panicked
  /\ cons.pc \in {"idle", "ret"}
  /\ cons' = [ConsInit EXCEPT !.op = "writeTo", !.pc = "load",
                               !.oq0 = outQuit, !.rc0 = hist.rclosed,
                               !.base = Len(delivered)]
  /\ UNCHANGED <<mode, ringVars, chanVars, panicked, prod, wcl,
                 copyVars, committed, delivered, hist>>

\* pipe.go:226-233: read copies out of the occupied slice
ReadCopy(safeFree) ==
  LET limit == ReadLimit(safeFree, cons.want)
      written == limit - outPos
  IN  /\ delivered' = delivered \o Cells(outPos, written)
      /\ cons' = [cons EXCEPT !.pc = "adv", !.nw = written, !.sf = 0]
      /\ UNCHANGED hist

\* a faulty variant of WriteToWrite: the count is compared before the sink's
\* error is looked at
WriteToWriteCountFirst(safeFree) ==
  LET limit == WriteToLimit(safeFree)
      m == limit - outPos
  IN  \E w \in SinkWrites(m) :
        /\ delivered' = delivered \o Cells(outPos, w[1])
        /\ cons' =
             IF w[1] # m
             THEN [ConsRet(cons.n + w[1], ErrShortWrite) EXCEPT !.serr = w[2]]
             ELSE IF w[2] # NoErr
                  THEN [ConsRet(cons.n + w[1], w[2]) EXCEPT !.serr = w[2]]
                  ELSE [cons EXCEPT !.pc = "adv",
                                    !.n = cons.n + w[1], !.nw = w[1]]
        /\ hist' = [hist EXCEPT
                      !.sinkFaults = IF SinkFault(w, m)
                                     THEN hist.sinkFaults + 1
                                     ELSE hist.sinkFaults]

\* pipe.go:252-265: writeTo hands the occupied slice to the sink
WriteToWrite(safeFree) ==
  LET limit == WriteToLimit(safeFree)
      m == limit - outPos
  IN  \E w \in SinkWrites(m) :
        /\ delivered' = delivered \o Cells(outPos, w[1])
        /\ cons' =
             IF w[2] # NoErr
             THEN [ConsRet(cons.n + w[1], w[2]) EXCEPT !.serr = w[2]]
             ELSE IF w[1] # m
                  THEN ConsRet(cons.n + w[1], ErrShortWrite)
                  ELSE [cons EXCEPT !.pc = "adv",
                                    !.n = cons.n + w[1], !.nw = w[1]]
        /\ hist' = [hist EXCEPT
                      !.sinkFaults = IF SinkFault(w, m)
                                     THEN hist.sinkFaults + 1
                                     ELSE hist.sinkFaults]

\* pipe.go:221-224 / 244-250: outputWait returned (safeFree, nil)
OutputGo(safeFree) ==
  IF mode = "st"
  THEN /\ cons' = [cons EXCEPT !.pc = "copy", !.sf = safeFree]
       /\ UNCHANGED <<delivered, hist>>
  ELSE IF cons.op = "read" THEN ReadCopy(safeFree)
                           ELSE WriteToWrite(safeFree)

\* pipe.go:226-233: read copies out of the slice sized by the value of free
\* that outputWait returned
OutputCopy ==
  /\ mode = "st"
  /\ ~panicked
  /\ cons.pc = "copy"
  /\ ReadCopy(cons.sf)
  /\ UNCHANGED <<mode, ringVars, chanVars, panicked, prod, wcl,
                 copyVars, committed>>

\* pipe.go:152, 160, 177: outputWait's first load of free
OutputWaitLoad ==
  /\ mode # "copy"
  /\ ~panicked
  /\ cons.pc = "load"
  /\ IF free = size
     THEN /\ cons' = [cons EXCEPT !.pc = "spin"]
          /\ UNCHANGED <<delivered, hist>>
     ELSE OutputGo(free)
  /\ UNCHANGED <<mode, ringVars, chanVars, panicked, prod, wcl,
                 copyVars, committed>>

\* pipe.go:155-160: the spin loop. A reload that finds free unchanged alters
\* nothing but the loop counter, so the loop is taken at its last reload: the one
\* that finds the buffer usable, or the maxSpin-th, which leads to the select
OutputWaitSpin ==
  /\ mode # "copy"
  /\ ~panicked
  /\ cons.pc = "spin"
  /\ IF free = size
     THEN /\ cons' = [cons EXCEPT !.pc = "select"]
          /\ UNCHANGED <<delivered, hist>>
     ELSE OutputGo(free)
  /\ UNCHANGED <<mode, ringVars, chanVars, panicked, prod, wcl,
                 copyVars, committed>>

\* pipe.go:161-163: the select receives the wake token and retries
OutputWaitWake ==
  /\ mode # "copy"
  /\ ~panicked
  /\ cons.pc = "select"
  /\ outWake = 1
  /\ outWake' = 0
  /\ cons' = [cons EXCEPT !.pc = "load"]
  /\ UNCHANGED <<mode, ringVars, inWake, inQuit, outQuit, inErr, outErr,
                 panicked, prod, wcl, copyVars, committed, delivered, hist>>

\* a faulty variant of OutputWaitInQuit: the closed inQuit releases the
\* select only when the ring holds data
OutputWaitInQuitData ==
  /\ mode # "copy"
  /\ ~panicked
  /\ cons.pc = "select"
  /\ inQuit
  /\ free # size
  /\ cons' = [cons EXCEPT !.pc = "quitload"]
  /\ UNCHANGED <<mode, ringVars, chanVars, panicked, prod, wcl,
                 copyVars, committed, delivered, hist>>

\* a faulty variant of OutputWaitInQuit: the read half is closed as soon as
\* the select finds inQuit closed
OutputWaitInQuitCloses ==
  /\ mode # "copy"
  /\ ~panicked
  /\ cons.pc = "select"
  /\ inQuit
  /\ cons' = [cons EXCEPT !.pc = "quitload"]
  /\ outQuit' = TRUE
  /\ UNCHANGED <<mode, ringVars, inWake, outWake, inQuit, inErr, outErr,
                 panicked, prod, wcl, copyVars, committed, delivered, hist>>

\* pipe.go:165: the select finds inQuit closed
OutputWaitInQuit ==
  /\ mode # "copy"
  /\ ~panicked
  /\ cons.pc = "select"
  /\ inQuit
  /\ cons' = [cons EXCEPT !.pc = "quitload"]
  /\ UNCHANGED <<mode, ringVars, chanVars, panicked, prod, wcl,
                 copyVars, committed, delivered, hist>>

\* a faulty variant of OutputWaitReload: free is not loaded again, the
\* closed inQuit alone ends the stream
OutputWaitReloadStale ==
  /\ mode # "copy"
  /\ ~panicked
  /\ cons.pc = "quitload"
  /\ cons' = [cons EXCEPT !.pc = "eof"]
  /\ UNCHANGED <<delivered, hist>>
  /\ UNCHANGED <<mode, ringVars, chanVars, panicked, prod, wcl,
                 copyVars, committed>>

\* pipe.go:166-169: free is loaded again; data that raced the close is read
OutputWaitReload ==
  /\ mode # "copy"
  /\ ~panicked
  /\ cons.pc = "quitload"
  /\ IF free # size
     THEN OutputGo(free)
     ELSE /\ cons' = [cons EXCEPT !.pc = "eof"]
          /\ UNCHANGED <<delivered, hist>>
  /\ UNCHANGED <<mode, ringVars, chanVars, panicked, prod, wcl,
                 copyVars, committed>>

\* pipe.go:334-345: outputClose's effect on outErr and outQuit, under its lock
\* a faulty variant of OutputCloseEffect: outQuit is closed without looking
\* whether it is closed already, and closing a closed channel panics
OutputCloseUnguarded(err) ==
  /\ outErr' = err
  /\ IF outQuit
     THEN panicked' = TRUE /\ UNCHANGED outQuit
     ELSE outQuit' = TRUE /\ UNCHANGED panicked

OutputCloseEffect(err) ==
  /\ outErr' = err
  /\ IF outQuit
     THEN UNCHANGED outQuit
     ELSE outQuit' = TRUE
  /\ UNCHANGED panicked

\* pipe.go:170-171 with pipe.go:222-224 (read) / 245-250 (writeTo): the ring
\* is empty and the writer closed: close the reader, return the writer's error
OutputWaitEOF ==
  /\ mode # "copy"
  /\ ~panicked
  /\ cons.pc = "eof"
  /\ OutputCloseEffect(NoErr)
  /\ cons' = ConsRet(IF cons.op = "read" THEN 0 ELSE cons.n,
                     IF cons.op = "writeTo" /\ inErr = EOF
                     THEN NoErr ELSE inErr)
  /\ hist' = [hist EXCEPT !.reclosed = @ \/ outQuit]
  /\ UNCHANGED <<mode, ringVars, inWake, outWake, inQuit, inErr,
                 prod, wcl, copyVars, committed, delivered>>

\* pipe.go:173-174 with pipe.go:222-224 / 245-250: the select finds outQuit closed
OutputWaitOutQuit ==
  /\ mode # "copy"
  /\ ~panicked
  /\ cons.pc = "select"
  /\ outQuit
  /\ cons' = ConsRet(IF cons.op = "read" THEN 0 ELSE cons.n, ErrClosedPipe)
  /\ UNCHANGED <<mode, ringVars, chanVars, panicked, prod, wcl,
                 copyVars, committed, delivered, hist>>

\* pipe.go:198-203: outputAdvance moves outPos and adds to free
OutputAdvance ==
  /\ mode # "copy"
  /\ ~panicked
  /\ cons.pc = "adv"
  /\ outPos' = Wrap(outPos + cons.nw)
  /\ free' = free + cons.nw
  /\ cons' = [cons EXCEPT !.pc = "sig"]
  /\ UNCHANGED <<mode, size, buffer, inPos, chanVars, panicked, prod,
                 wcl, copyVars, committed, delivered, hist>>

\* a faulty variant of OutputSignal: the wake token is not sent
OutputSignalLost ==
  /\ mode # "copy"
  /\ ~panicked
  /\ cons.pc = "sig"
  /\ cons' = IF cons.op = "read"
             THEN ConsRet(cons.nw, NoErr)
             ELSE [cons EXCEPT !.pc = "load", !.nw = 0]
  /\ UNCHANGED <<mode, ringVars, inWake, outWake, inQuit, outQuit, inErr, outErr,
                 panicked, prod, wcl, copyVars, committed, delivered, hist>>

\* pipe.go:205-208: outputAdvance's non-blocking send on inWake; then read
\* returns (pipe.go:237) and writeTo loops (pipe.go:242)
OutputSignal ==
  /\ mode # "copy"
  /\ ~panicked
  /\ cons.pc = "sig"
  /\ inWake' = 1
  /\ cons' = IF cons.op = "read"
             THEN ConsRet(cons.nw, NoErr)
             ELSE [cons EXCEPT !.pc = "load", !.nw = 0]
  /\ UNCHANGED <<mode, ringVars, outWake, inQuit, outQuit, inErr, outErr,
                 panicked, prod, wcl, copyVars, committed, delivered, hist>>

\* ------------------------------------------------------------- closing

\* pipe.go:81-90, 334-345: PipeReader.Close / CloseWithError(err)
ReaderClose(err) ==
  /\ mode # "copy"
  /\ ~panicked
  /\ OutputCloseEffect(err)
  /\ hist' = [hist EXCEPT !.rclosed = TRUE, !.reclosed = @ \/ outQuit]
  /\ UNCHANGED <<mode, ringVars, inWake, outWake, inQuit, inErr,
                 prod, cons, wcl, copyVars, committed, delivered>>

\* pipe.go:111-120, 349-353: PipeWriter.Close / CloseWithError(err): inputClose
\* stores the error (io.EOF for nil) in inErr
WriterClose(err) ==
  /\ mode # "copy"
  /\ ~panicked
  /\ wcl \in {"idle", "ret"}
  /\ inErr' = IF err = NoErr THEN EOF ELSE err
  /\ wcl' = "close"
  /\ UNCHANGED <<mode, ringVars, inWake, outWake, inQuit, outQuit, outErr,
                 panicked, prod, cons, copyVars, committed, delivered, hist>>

\* pipe.go:355: inputClose closes inQuit; closing a closed channel panics
WriterCloseQuit ==
  /\ mode # "copy"
  /\ ~panicked
  /\ wcl = "close"
  /\ IF inQuit
     THEN /\ panicked' = TRUE
          /\ wcl' = "panic"
          /\ UNCHANGED inQuit
     ELSE /\ inQuit' = TRUE
          /\ wcl' = "check"
          /\ UNCHANGED panicked
  /\ UNCHANGED <<mode, ringVars, inWake, outWake, outQuit, inErr, outErr,
                 prod, cons, copyVars, committed, delivered, hist>>

\* pipe.go:356: inputClose loads free to decide whether to wait
WriterCloseCheck ==
  /\ mode # "copy"
  /\ ~panicked
  /\ wcl = "check"
  /\ wcl' = IF free # size THEN "wait" ELSE "ret"
  /\ UNCHANGED <<mode, ringVars, chanVars, panicked, prod, cons,
                 copyVars, committed, delivered, hist>>

\* a faulty variant of WriterCloseWait: the close returns without outQuit
WriterCloseWaitNoQuit ==
  /\ mode # "copy"
  /\ ~panicked
  /\ wcl = "wait"
  /\ wcl' = "ret"
  /\ UNCHANGED <<mode, ringVars, chanVars, panicked, prod, cons,
                 copyVars, committed, delivered, hist>>

\* pipe.go:357: inputClose waits for outQuit
WriterCloseWait ==
  /\ mode # "copy"
  /\ ~panicked
  /\ wcl = "wait"
  /\ outQuit
  /\ wcl' = "ret"
  /\ UNCHANGED <<mode, ringVars, chanVars, panicked, prod, cons,
                 copyVars, committed, delivered, hist>>

\* =============================================================== bufio.go
\* ------------------------------------------------- Copy's reader goroutine

\* bufio.go:63-67: src.Read fills the free slice sized by safeFree
CopySrcRead(safeFree) ==
  LET limit == IF inPos + safeFree <= size THEN inPos + safeFree ELSE size
  IN  \E r \in SourceReads(limit - inPos) :
        /\ buffer' = Fill(inPos, inPos + r[1], committed + 1)
        /\ prod' = [prod EXCEPT !.pc = "adv", !.nr = r[1],
                                !.rerr = r[2]]
        /\ hist' = [hist EXCEPT
                      !.src = SourceAfter(r[2]),
                      !.first = IF @ = NoErr /\ r[2] = SrcErr
                                THEN r[2] ELSE @]

\* bufio.go:46, 53: the first load of free
CopyInLoad ==
  /\ mode = "copy"
  /\ prod.pc = "load"
  /\ IF free = 0
     THEN /\ prod' = [prod EXCEPT !.pc = "spin"]
          /\ UNCHANGED <<buffer, hist>>
     ELSE CopySrcRead(free)
  /\ UNCHANGED <<mode, size, free, inPos, outPos, chanVars, panicked, cons,
                 wcl, copyVars, committed, delivered>>

\* bufio.go:49-53: the spin loop. A reload that finds free unchanged alters
\* nothing but the loop counter, so the loop is taken at its last reload: the one
\* that finds the buffer usable, or the maxSpin-th, which leads to the select
CopyInSpin ==
  /\ mode = "copy"
  /\ prod.pc = "spin"
  /\ IF free = 0
     THEN /\ prod' = [prod EXCEPT !.pc = "select"]
          /\ UNCHANGED <<buffer, hist>>
     ELSE CopySrcRead(free)
  /\ UNCHANGED <<mode, size, free, inPos, outPos, chanVars, panicked, cons,
                 wcl, copyVars, committed, delivered>>

\* bufio.go:55-56: the select receives the wake token and retries
CopyInWake ==
  /\ mode = "copy"
  /\ prod.pc = "select"
  /\ inWake = 1
  /\ inWake' = 0
  /\ prod' = [prod EXCEPT !.pc = "load"]
  /\ UNCHANGED <<mode, ringVars, outWake, inQuit, outQuit, inErr, outErr,
                 panicked, cons, wcl, copyVars, committed, delivered, hist>>

\* bufio.go:58-59, 39: the writer goroutine is gone: return, closing inQuit
CopyInQuit ==
  /\ mode = "copy"
  /\ prod.pc = "select"
  /\ outQuit
  /\ inQuit' = TRUE
  /\ prod' = ProdRet(0, 0, NoErr)
  /\ UNCHANGED <<mode, ringVars, inWake, outWake, outQuit, inErr, outErr,
                 panicked, cons, wcl, copyVars, committed, delivered, hist>>

\* bufio.go:69-73: the cursor and free are updated
CopyInAdvance ==
  /\ mode = "copy"
  /\ prod.pc = "adv"
  /\ inPos' = Wrap(inPos + prod.nr)
  /\ free' = free - prod.nr
  /\ committed' = committed + prod.nr
  /\ prod' = [prod EXCEPT !.pc = "sig", !.nr = 0]
  /\ UNCHANGED <<mode, size, buffer, outPos, chanVars, panicked, cons,
                 wcl, copyVars, delivered, hist>>

\* a faulty variant of CopyInSignal: the writer goroutine is not signalled
CopyInSignalLost ==
  /\ mode = "copy"
  /\ prod.pc = "sig"
  /\ IF prod.rerr = EOF
     THEN /\ inQuit' = TRUE
          /\ prod' = ProdRet(0, 0, NoErr)
          /\ UNCHANGED <<outWake, failure>>
     ELSE IF prod.rerr # NoErr
          THEN /\ failure' = prod.rerr
               /\ inQuit' = TRUE
               /\ prod' = ProdRet(0, 0, prod.rerr)
               /\ UNCHANGED outWake
          ELSE /\ prod' = [prod EXCEPT !.pc = "load"]
               /\ UNCHANGED <<outWake, inQuit, failure>>
  /\ UNCHANGED <<mode, ringVars, inWake, outQuit, inErr, outErr, panicked,
                 cons, wcl, main, committed, delivered, hist>>

\* a faulty variant of CopyInSignal: the source's error ends the goroutine
\* without being stored
CopyInSignalNoFailure ==
  /\ mode = "copy"
  /\ prod.pc = "sig"
  /\ IF prod.rerr = EOF
     THEN /\ inQuit' = TRUE
          /\ prod' = ProdRet(0, 0, NoErr)
          /\ UNCHANGED <<outWake, failure>>
     ELSE IF prod.rerr # NoErr
          THEN /\ inQuit' = TRUE
               /\ prod' = ProdRet(0, 0, prod.rerr)
               /\ UNCHANGED <<outWake, failure>>
          ELSE /\ outWake' = 1
               /\ prod' = [prod EXCEPT !.pc = "load"]
               /\ UNCHANGED <<inQuit, failure>>
  /\ UNCHANGED <<mode, ringVars, inWake, outQuit, inErr, outErr, panicked,
                 cons, wcl, main, committed, delivered, hist>>

\* bufio.go:76-87, 39: io.EOF ends the goroutine, another error is stored in
\* failure first (the deferred close of inQuit follows); otherwise the
\* writer is signalled
CopyInSignal ==
  /\ mode = "copy"
  /\ prod.pc = "sig"
  /\ IF prod.rerr = EOF
     THEN /\ inQuit' = TRUE
          /\ prod' = ProdRet(0, 0, NoErr)
          /\ UNCHANGED <<outWake, failure>>
     ELSE IF prod.rerr # NoErr
          THEN /\ failure' = prod.rerr
               /\ inQuit' = TRUE
               /\ prod' = ProdRet(0, 0, prod.rerr)
               /\ UNCHANGED outWake
          ELSE /\ outWake' = 1
               /\ prod' = [prod EXCEPT !.pc = "load"]
               /\ UNCHANGED <<inQuit, failure>>
  /\ UNCHANGED <<mode, ringVars, inWake, outQuit, inErr, outErr, panicked,
                 cons, wcl, main, committed, delivered, hist>>

\* ------------------------------------------------- Copy's writer goroutine

\* a faulty variant of CopyDstWrite: the count is added only after the checks,
\* so the bytes of a failing or short write are left out
CopyDstWriteCountLate(safeFree) ==
  LET expect == IF outPos - safeFree <= 0 THEN size - safeFree
                                          ELSE size - outPos
  IN  \E w \in SinkWrites(expect) :
        /\ delivered' = delivered \o Cells(outPos, w[1])
        /\ hist' = [hist EXCEPT
                      !.sinkFaults = IF SinkFault(w, expect)
                                     THEN hist.sinkFaults + 1
                                     ELSE hist.sinkFaults,
                      !.first = IF @ = NoErr THEN w[2] ELSE @]
        /\ IF w[2] # NoErr
           THEN /\ failure' = w[2]
                /\ outQuit' = TRUE
                /\ cons' = ConsRet(cons.n, w[2])
           ELSE IF w[1] # expect
                THEN /\ outQuit' = TRUE
                     /\ cons' = ConsRet(cons.n, ErrShortWrite)
                     /\ UNCHANGED failure
                ELSE /\ cons' = [cons EXCEPT !.pc = "adv",
                                             !.n = cons.n + w[1],
                                             !.nw = w[1]]
                     /\ UNCHANGED <<failure, outQuit>>

\* a faulty variant of CopyDstWrite: the goroutine ends on a failing or short
\* write without closing outQuit
CopyDstWriteNoQuit(safeFree) ==
  LET expect == IF outPos - safeFree <= 0 THEN size - safeFree
                                          ELSE size - outPos
  IN  \E w \in SinkWrites(expect) :
        /\ delivered' = delivered \o Cells(outPos, w[1])
        /\ hist' = [hist EXCEPT
                      !.sinkFaults = IF SinkFault(w, expect)
                                     THEN hist.sinkFaults + 1
                                     ELSE hist.sinkFaults,
                      !.first = IF @ = NoErr THEN w[2] ELSE @]
        /\ IF w[2] # NoErr
           THEN /\ failure' = w[2]
                /\ UNCHANGED outQuit
                /\ cons' = ConsRet(cons.n + w[1], w[2])
           ELSE IF w[1] # expect
                THEN /\ UNCHANGED outQuit
                     /\ cons' = ConsRet(cons.n + w[1], ErrShortWrite)
                     /\ UNCHANGED failure
                ELSE /\ cons' = [cons EXCEPT !.pc = "adv",
                                             !.n = cons.n + w[1],
                                             !.nw = w[1]]
                     /\ UNCHANGED <<failure, outQuit>>

\* bufio.go:123-140, 93: dst.Write gets the occupied slice; an error is
\* stored in failure, a short write only in the goroutine's own err, and
\* both end the goroutine (the deferred close of outQuit follows)
CopyDstWrite(safeFree) ==
  LET expect == IF outPos - safeFree <= 0 THEN size - safeFree
                                          ELSE size - outPos
  IN  \E w \in SinkWrites(expect) :
        /\ delivered' = delivered \o Cells(outPos, w[1])
        /\ hist' = [hist EXCEPT
                      !.sinkFaults = IF SinkFault(w, expect)
                                     THEN hist.sinkFaults + 1
                                     ELSE hist.sinkFaults,
                      !.first = IF @ = NoErr THEN w[2] ELSE @]
        /\ IF w[2] # NoErr
           THEN /\ failure' = w[2]
                /\ outQuit' = TRUE
                /\ cons' = ConsRet(cons.n + w[1], w[2])
           ELSE IF w[1] # expect
                THEN /\ outQuit' = TRUE
                     /\ cons' = ConsRet(cons.n + w[1], ErrShortWrite)
                     /\ UNCHANGED failure
                ELSE /\ cons' = [cons EXCEPT !.pc = "adv",
                                             !.n = cons.n + w[1],
                                             !.nw = w[1]]
                     /\ UNCHANGED <<failure, outQuit>>

\* bufio.go:101, 108: the first load of free
CopyOutLoad ==
  /\ mode = "copy"
  /\ cons.pc = "load"
  /\ IF free = size
     THEN /\ cons' = [cons EXCEPT !.pc = "spin"]
          /\ UNCHANGED <<delivered, hist, failure, outQuit>>
     ELSE CopyDstWrite(free)
  /\ UNCHANGED <<mode, ringVars, inWake, outWake, inQuit, inErr, outErr,
                 panicked, prod, wcl, main, committed>>

\* bufio.go:104-108: the spin loop. A reload that finds free unchanged alters
\* nothing but the loop counter, so the loop is taken at its last reload: the one
\* that finds the buffer usable, or the maxSpin-th, which leads to the select
CopyOutSpin ==
  /\ mode = "copy"
  /\ cons.pc = "spin"
  /\ IF free = size
     THEN /\ cons' = [cons EXCEPT !.pc = "select"]
          /\ UNCHANGED <<delivered, hist, failure, outQuit>>
     ELSE CopyDstWrite(free)
  /\ UNCHANGED <<mode, ringVars, inWake, outWake, inQuit, inErr, outErr,
                 panicked, prod, wcl, main, committed>>

\* bufio.go:110-111: the select receives the wake token and retries
CopyOutWake ==
  /\ mode = "copy"
  /\ cons.pc = "select"
  /\ outWake = 1
  /\ outWake' = 0
  /\ cons' = [cons EXCEPT !.pc = "load"]
  /\ UNCHANGED <<mode, ringVars, inWake, inQuit, outQuit, inErr, outErr,
                 panicked, prod, wcl, copyVars, committed, delivered, hist>>

\* bufio.go:113: the select finds inQuit closed
CopyOutInQuit ==
  /\ mode = "copy"
  /\ cons.pc = "select"
  /\ inQuit
  /\ cons' = [cons EXCEPT !.pc = "quitload"]
  /\ UNCHANGED <<mode, ringVars, chanVars, panicked, prod, wcl,
                 copyVars, committed, delivered, hist>>

\* a faulty variant of CopyOutReload: the writer goroutine ends as soon as
\* it finds inQuit closed, without loading free again
CopyOutReloadNoDrain ==
  /\ mode = "copy"
  /\ cons.pc = "quitload"
  /\ cons' = ConsRet(cons.n, NoErr)
  /\ outQuit' = TRUE
  /\ UNCHANGED <<mode, ringVars, inWake, outWake, inQuit, inErr, outErr,
                 panicked, prod, wcl, copyVars, committed, delivered, hist>>

\* bufio.go:115-119, 93: free is loaded again: data that raced the close
\* sends the loop round again, an empty buffer ends the goroutine
CopyOutReload ==
  /\ mode = "copy"
  /\ cons.pc = "quitload"
  /\ IF free # size
     THEN /\ cons' = [cons EXCEPT !.pc = "load"]
          /\ UNCHANGED outQuit
     ELSE /\ cons' = ConsRet(cons.n, NoErr)
          /\ outQuit' = TRUE
  /\ UNCHANGED <<mode, ringVars, inWake, outWake, inQuit, inErr, outErr,
                 panicked, prod, wcl, copyVars, committed, delivered, hist>>

\* bufio.go:142-146: the cursor and free are updated
CopyOutAdvance ==
  /\ mode = "copy"
  /\ cons.pc = "adv"
  /\ outPos' = Wrap(outPos + cons.nw)
  /\ free' = free + cons.nw
  /\ cons' = [cons EXCEPT !.pc = "sig"]
  /\ UNCHANGED <<mode, size, buffer, inPos, chanVars, panicked, prod,
                 wcl, copyVars, committed, delivered, hist>>

\* a faulty variant of CopyOutSignal: the wake token is not sent
CopyOutSignalLost ==
  /\ mode = "copy"
  /\ cons.pc = "sig"
  /\ cons' = [cons EXCEPT !.pc = "load", !.nw = 0]
  /\ UNCHANGED <<mode, ringVars, inWake, outWake, inQuit, outQuit, inErr,
                 outErr, panicked, prod, wcl, copyVars, committed, delivered,
                 hist>>

\* bufio.go:149-152: the reader is signalled
CopyOutSignal ==
  /\ mode = "copy"
  /\ cons.pc = "sig"
  /\ inWake' = 1
  /\ cons' = [cons EXCEPT !.pc = "load", !.nw = 0]
  /\ UNCHANGED <<mode, ringVars, outWake, inQuit, outQuit, inErr, outErr,
                 panicked, prod, wcl, copyVars, committed, delivered, hist>>

\* a faulty variant of CopyReturn: only the writer goroutine is waited for
CopyReturnEarly ==
  /\ mode = "copy"
  /\ main.pc = "wait"
  /\ outQuit
  /\ main' = [pc |-> "ret", n |-> cons.n, err |-> failure]
  /\ UNCHANGED <<mode, ringVars, chanVars, panicked, prod, cons, wcl,
                 failure, committed, delivered, hist>>

\* bufio.go:156-158: Copy returns (written, failure) once both are closed
CopyReturn ==
  /\ mode = "copy"
  /\ main.pc = "wait"
  /\ outQuit
  /\ inQuit
  /\ main' = [pc |-> "ret", n |-> cons.n, err |-> failure]
  /\ UNCHANGED <<mode, ringVars, chanVars, panicked, prod, cons, wcl,
                 failure, committed, delivered, hist>>

\* ---------------------------------------------------------------- threads
\* the steps of a producer call in flight
ProducerRun ==
  \/ InputWaitLoad
  \/ InputWaitSpin
  \/ InputWaitWake
  \/ InputWaitQuit
  \/ InputAdvance
  \/ InputSignal

\* the client on the write half calls Write or ReadFrom
ProducerCall ==
  \/ \E len \in 1..MaxBytes : len <= MaxBytes - committed /\ WriteStart(len)
  \/ ReadFromStart

ProducerStep ==
  \/ ProducerCall
  \/ ProducerRun

\* the steps of a consumer call in flight
ConsumerRun ==
  \/ OutputWaitLoad
  \/ OutputWaitSpin
  \/ OutputWaitWake
  \/ OutputWaitInQuit
  \/ OutputWaitReload
  \/ OutputWaitEOF
  \/ OutputWaitOutQuit
  \/ OutputAdvance
  \/ OutputSignal

\* the client on the read half calls Read or WriteTo
ConsumerCall ==
  \/ \E want \in {1, size} : ReadStart(want)
  \/ WriteToStart

ConsumerStep ==
  \/ ConsumerCall
  \/ ConsumerRun

\* the steps of a PipeWriter.Close in flight
CloserRun ==
  \/ WriterCloseQuit
  \/ WriterCloseCheck
  \/ WriterCloseWait

\* the clients that close a half. PipeReader.Close() is CloseWithError(nil)
\* and differs from a close with an error only in outErr, which no code
\* reads: the read half is closed with an error
CloserStep ==
  \/ \E err \in {RCloseErr} : ReaderClose(err)
  \/ \E err \in {NoErr, WCloseErr} : WriterClose(err)
  \/ CloserRun

CopyInStep ==
  \/ CopyInLoad
  \/ CopyInSpin
  \/ CopyInWake
  \/ CopyInQuit
  \/ CopyInAdvance
  \/ CopyInSignal

CopyOutStep ==
  \/ CopyOutLoad
  \/ CopyOutSpin
  \/ CopyOutWake
  \/ CopyOutInQuit
  \/ CopyOutReload
  \/ CopyOutAdvance
  \/ CopyOutSignal

\* a Pipe() and its clients
NextPipe ==
  \/ ProducerStep
  \/ ConsumerStep
  \/ CloserStep

\* one Copy() call
NextCopy ==
  \/ CopyInStep
  \/ CopyOutStep
  \/ CopyReturn

Next ==
  \/ ProducerStep
  \/ ConsumerStep
  \/ CloserStep
  \/ CopyInStep
  \/ CopyOutStep
  \/ CopyReturn

Spec == Init /\ [][Next]_vars

\* a Pipe() driven through Write and Read, the write half closed at most
\* once
InitRW == mode = "rw" /\ InitPipe

NextRW ==
  \/ \E len \in 1..MaxBytes : len <= MaxBytes - committed /\ WriteStart(len)
  \/ ProducerRun
  \/ \E want \in {1, size} : ReadStart(want)
  \/ ConsumerRun
  \/ \E err \in {RCloseErr} : ReaderClose(err)
  \/ \E err \in {NoErr, WCloseErr} : wcl = "idle" /\ WriterClose(err)
  \/ CloserRun

\* the Go scheduler runs every runnable goroutine again and again: a call
\* in flight takes its next step; nothing obliges a client to make a call
LivePipe ==
  /\ InitRW
  /\ [][NextRW]_vars
  /\ WF_vars(ProducerRun)
  /\ WF_vars(ConsumerRun)
  /\ WF_vars(CloserRun)

\* ------------------------------------------------- int32 index arithmetic
\* an integer held as <<hi, lo>>, its value hi * 2^16 + lo with lo in
\* 0..2^16 - 1
Half == 65536
Norm(hi, lo) == <<hi + (lo \div Half), lo % Half>>
WAdd(a, b) == Norm(a[1] + b[1], a[2] + b[2])
WSub(a, b) == Norm(a[1] - b[1], a[2] - b[2])
WLess(a, b) == a[1] < b[1] \/ (a[1] = b[1] /\ a[2] < b[2])
WZero == <<0, 0>>
WOne == <<0, 1>>

\* what Go's int32 keeps of an integer: its value modulo 2^32, as a signed
\* number
Int32(a) == <<((a[1] + 32768) % Half) - 32768, a[2]>>

\* the capacities taken: 2^30, 2^30 + 1 and 2^31 - 1
WideSizes == {<<16384, 0>>, <<16384, 1>>, <<32767, 65535>>}

\* Pipe(size) for such a capacity; the cells themselves are left out
InitWide ==
  /\ mode = "i32"
  /\ size \in WideSizes
  /\ buffer = <<>>
  /\ free = size
  /\ inPos = WZero
  /\ outPos = WZero
  /\ inWake = 0
  /\ outWake = 0
  /\ inQuit = FALSE
  /\ outQuit = FALSE
  /\ inErr = NoErr
  /\ outErr = NoErr
  /\ panicked = FALSE
  /\ wcl = "idle"
  /\ failure = NoErr
  /\ committed = 0
  /\ delivered = <<>>
  /\ hist = HistInit
  /\ prod = ProdInit
  /\ cons = ConsInit
  /\ main = [pc |-> "none", n |-> 0, err |-> NoErr]

\* pipe.go:184-187, 199-202 on such a cursor
WideWrap(pos) == IF WLess(pos, size) THEN pos ELSE WSub(pos, size)

\* pipe.go:272-302: a Write of len bytes that finds free space, up to its
\* first inputAdvance; a slice whose end lies before its start or beyond
\* the buffer panics
WideWrite(len) ==
  /\ mode = "i32"
  /\ ~panicked
  /\ main.n < MaxWideOps
  /\ WLess(WZero, free)
  /\ LET l1 == Int32(WAdd(inPos, free))
         l2 == IF WLess(size, l1) THEN size ELSE l1
         l3 == Int32(WAdd(inPos, len))
         limit == IF WLess(l3, l2) THEN l3 ELSE l2
         nr == WSub(limit, inPos)
     IN  /\ prod' = [ProdInit EXCEPT !.op = "write", !.pc = "ret",
                                     !.base = inPos, !.sf = free,
                                     !.b = len, !.nr = nr]
         /\ IF WLess(limit, inPos) \/ WLess(size, limit)
            THEN /\ panicked' = TRUE
                 /\ UNCHANGED <<inPos, free>>
            ELSE /\ inPos' = WideWrap(WAdd(inPos, nr))
                 /\ free' = WSub(free, nr)
                 /\ UNCHANGED panicked
  /\ main' = [main EXCEPT !.n = @ + 1]
  /\ UNCHANGED <<mode, size, buffer, outPos, chanVars, cons, wcl, failure,
                 committed, delivered, hist>>

\* pipe.go:213-238: a Read into want bytes that finds data
WideRead(want) ==
  /\ mode = "i32"
  /\ ~panicked
  /\ main.n < MaxWideOps
  /\ WLess(free, size)
  /\ LET l1 == Int32(WSub(Int32(WAdd(outPos, size)), free))
         l2 == IF WLess(size, l1) THEN size ELSE l1
         l3 == Int32(WAdd(outPos, want))
         limit == IF WLess(l3, l2) THEN l3 ELSE l2
         written == WSub(limit, outPos)
     IN  /\ cons' = [ConsInit EXCEPT !.op = "read", !.pc = "ret",
                                     !.base = outPos, !.sf = free,
                                     !.want = want, !.nw = written]
         /\ IF WLess(limit, outPos) \/ WLess(size, limit)
            THEN /\ panicked' = TRUE
                 /\ UNCHANGED <<outPos, free>>
            ELSE /\ outPos' = WideWrap(WAdd(outPos, written))
                 /\ free' = WAdd(free, written)
                 /\ UNCHANGED panicked
  /\ main' = [main EXCEPT !.n = @ + 1]
  /\ UNCHANGED <<mode, size, buffer, inPos, chanVars, prod, wcl, failure,
                 committed, delivered, hist>>

\* the lengths the clients pass: one byte, 2^30 bytes, the whole capacity
NextWide ==
  \/ \E len \in {WOne, <<16384, 0>>, size} : WideWrite(len)
  \/ \E want \in {WOne, <<16384, 0>>, size} : WideRead(want)

SpecWide == InitWide /\ [][NextWide]_vars

\* ------------------------------------------ ReadFrom, Close and WriteTo
\* Pipe(size) with one task that calls ReadFrom and then closes the write
\* half with the result, and one that calls WriteTo
InitPair ==
  /\ mode = "pp"
  /\ InitCommon
  /\ prod = ProdInit
  /\ cons = ConsInit
  /\ main = [pc |-> "none", n |-> 0, err |-> NoErr]

\* the producer task: pw.CloseWithError(err) follows ReadFrom's return.  No
\* one closes the read half while ReadFrom runs, which leaves out the quit
\* branch of inputWait
PairProducer ==
  \/ prod.pc = "idle" /\ ReadFromStart
  \/ InputWaitLoad
  \/ InputWaitSpin
  \/ InputWaitWake
  \/ InputAdvance
  \/ InputSignal
  \/ prod.pc = "ret" /\ wcl = "idle" /\ WriterClose(prod.err)
  \/ CloserRun

\* the consumer calls WriteTo once; outQuit is closed only by its own end
\* of stream, which leaves out the outQuit branch of outputWait
PairConsumer ==
  \/ cons.pc = "idle" /\ WriteToStart
  \/ OutputWaitLoad
  \/ OutputWaitSpin
  \/ OutputWaitWake
  \/ OutputWaitInQuit
  \/ OutputWaitReload
  \/ OutputWaitEOF
  \/ OutputAdvance
  \/ OutputSignal

NextPair ==
  \/ PairProducer
  \/ PairConsumer

\* a Copy() next to the pair of tasks on a Pipe() of the same capacities
SpecRefine ==
  /\ InitCopy \/ InitPair
  /\ [][NextCopy \/ NextPair]_vars

\* a Pipe() whose clients write, read and close, in mode "st"
NextStale ==
  \/ NextRW
  \/ InputCopy
  \/ OutputCopy

SpecStale == InitStale /\ [][NextStale]_vars

SpecCopy == InitCopy /\ [][NextCopy]_vars

\* the Go scheduler runs every runnable goroutine again and again
LiveCopy ==
  /\ SpecCopy
  /\ WF_vars(CopyInStep)
  /\ WF_vars(CopyOutStep)
  /\ WF_vars(CopyReturn)

\* the steps of the reader goroutine that do not call src.Read
CopyInNoRead ==
  \/ CopyInWake
  \/ CopyInQuit
  \/ CopyInAdvance
  \/ CopyInSignal

\* the Go scheduler runs every runnable goroutine again and again, but a
\* call of src.Read may take for ever to return
LiveCopyStalled ==
  /\ SpecCopy
  /\ WF_vars(CopyInNoRead)
  /\ WF_vars(CopyOutStep)
  /\ WF_vars(CopyReturn)

\* ================================================================ properties
\* what the source has handed out and what the sink was given
Faultless == hist.sinkFaults = 0 /\ hist.src # "err"
Produced == committed + (IF prod.pc = "adv" THEN prod.nr ELSE 0)
CopyDone == mode = "copy" /\ main.pc = "ret"

\* C1: the bytes handed to the consumer or sink are, in every reachable
\* state of a pipe or a Copy, a prefix of the bytes committed by the
\* producer: nothing lost, duplicated or reordered.
FifoExactness == IsPrefix(delivered, Accepted)

\* C2: a Copy whose source ended with io.EOF and whose sink took every
\* write in full returns (L, nil), L the number of bytes the source handed
\* out, and the sink holds exactly those L bytes in order.
CopyConservation ==
  (CopyDone /\ Faultless) =>
     /\ main.n = Produced
     /\ main.err = NoErr
     /\ delivered = Accepted

CopyConservationWitness ==
  /\ CopyDone
  /\ Faultless
  /\ size = 1
  /\ main.n = MaxBytes
  /\ Len(delivered) = MaxBytes

\* a goroutine of Copy parked in its select with nothing to receive
CopyInBlocked == prod.pc = "select" /\ inWake = 0 /\ ~outQuit
CopyOutBlocked == cons.pc = "select" /\ outWake = 0 /\ ~inQuit

\* C3: under fair scheduling of its goroutines a Copy with a finite
\* faultless source and a faultless sink returns, and its two goroutines
\* are never both parked with nothing to wake them.
CopyTerminates ==
  /\ [](mode = "copy" => ~(CopyInBlocked /\ CopyOutBlocked))
  /\ <>(CopyDone \/ ~Faultless)

CopyTerminatesWitness ==
  /\ mode = "copy"
  /\ Faultless
  /\ CopyInBlocked
  /\ free = 0
  /\ committed < MaxBytes
  /\ hist.src = "open"

\* C4: a read gives the writer's close status only through a load of free
\* made after inQuit was seen closed that finds the ring empty; at that load
\* every committed byte has been delivered, in order, and the call then
\* returns no bytes and the error the writer attached (io.EOF for none).
DrainBeforeCloseStep ==
  /\ (cons.pc = "quitload" /\ cons'.pc = "eof") =>
        /\ inQuit
        /\ free = size
        /\ hist.sinkFaults = 0 => delivered = Accepted
  /\ (cons.op = "read" /\ cons'.op = "read" /\ cons.pc # "ret"
        /\ cons'.pc = "ret" /\ cons'.err \notin {NoErr, ErrClosedPipe}) =>
        /\ cons.pc = "eof"
        /\ cons'.n = 0
        /\ cons'.err = inErr
        /\ inErr \in {EOF, WCloseErr}
        /\ delivered' = delivered

DrainBeforeClose == [][DrainBeforeCloseStep]_vars

DrainBeforeCloseWitness ==
  /\ size = 2
  /\ cons.op = "read"
  /\ cons.pc = "ret"
  /\ cons.err = WCloseErr
  /\ delivered = <<1, 2, 3>>

\* C5: free stays within 0..size and both cursors within 0..size-1.
BoundedState ==
  /\ 0 <= free /\ free <= size
  /\ 0 <= inPos /\ inPos < size
  /\ 0 <= outPos /\ outPos < size

BoundedStateWitness ==
  /\ size = 2
  /\ free = 0
  /\ inPos = 1
  /\ outPos = 1
  /\ committed = 3

\* C6: once the write half is closed and the ring is empty, a Read, the
\* first to find this or a later one, returns no bytes and the writer's
\* error. Stated for a Read that started with outQuit closed by an earlier
\* Read that reached the end of the stream (the read half was never closed
\* by its client).
EofOnEveryRead ==
  (/\ cons.op = "read"
   /\ cons.pc = "ret"
   /\ cons.oq0
   /\ ~hist.rclosed
   /\ inQuit
   /\ free = size) =>
     /\ cons.n = 0
     /\ cons.err = inErr

\* C7: a producer call (Write of at least one byte, or ReadFrom) started
\* after PipeReader.Close has returned ends with ErrClosedPipe.
ClosedPipeAfterReaderClose ==
  (prod.pc = "ret" /\ prod.rc0) => prod.err = ErrClosedPipe

\* C8: a Write returns nil only when it committed all of its input, and a
\* Write that had input left when an end of the pipe was closed (here:
\* closed before the call started) returns ErrClosedPipe with the number of
\* bytes it committed, fewer than its input.
WriteClosedPipe ==
  (prod.op = "write" /\ prod.pc = "ret") =>
     /\ prod.n = committed - prod.base
     /\ prod.err = NoErr => prod.b = 0
     /\ (prod.rc0 \/ prod.iq0) =>
           (prod.err = ErrClosedPipe /\ prod.b > 0)

\* a producer parked in its select on a full ring, no wake token pending
ProducerParked == prod.pc = "select" /\ free = 0 /\ inWake = 0

\* C9: a producer call parked on a full ring when an end of the pipe is
\* closed eventually returns ErrClosedPipe, with the number of bytes it
\* committed as count.
BlockedProducerReleased ==
  [](( ProducerParked /\ (inQuit \/ outQuit)) =>
        <>(/\ prod.pc = "ret"
           /\ prod.err = ErrClosedPipe
           /\ prod.n = committed - prod.base))

\* what a Read that went through the wait does in a step
BlockedReadStep ==
  /\ (cons.op = "read" /\ cons.pc = "quitload" /\ cons' # cons
        /\ free # size) =>
        /\ cons'.pc = "adv"
        /\ cons'.nw >= 1
        /\ Len(delivered') = Len(delivered) + cons'.nw
        /\ IsPrefix(delivered', Accepted)
  /\ (cons.op = "read" /\ cons.pc = "quitload" /\ cons' # cons
        /\ free = size) =>
        cons'.pc = "eof"
  /\ (cons.op = "read" /\ cons.pc = "eof" /\ cons' # cons) =>
        /\ cons'.pc = "ret"
        /\ cons'.n = 0
        /\ cons'.err = IF inErr = NoErr THEN EOF ELSE inErr

\* C10: a Read parked on an empty ring when the write half is closed
\* eventually returns; it returns bytes that were committed before it looked
\* again, and otherwise no bytes and the writer's error (io.EOF for none).
BlockedReadReleased ==
  /\ []((cons.op = "read" /\ cons.pc = "select" /\ inQuit) =>
          <>(cons.pc = "ret"))
  /\ [][BlockedReadStep]_vars

BlockedReadReleasedWitness ==
  /\ cons.op = "read"
  /\ cons.pc = "eof"
  /\ committed = 0
  /\ inErr = EOF
  /\ wcl = "ret"

\* what a Read does in the step that copies out and in the step that
\* returns nil
ReadCountStep ==
  /\ (cons.op = "read" /\ cons.pc # "adv" /\ cons'.pc = "adv") =>
        /\ 1 <= cons'.nw
        /\ cons'.nw <= cons.want
        /\ cons'.nw <= size - free
        /\ Len(delivered') = Len(delivered) + cons'.nw
  /\ (cons'.op = "read" /\ cons' # cons /\ cons'.pc = "ret"
        /\ cons'.err = NoErr) =>
        /\ cons.op = "read"
        /\ cons.pc = "sig"
        /\ cons'.n = cons.nw
        /\ 1 <= cons'.n
        /\ cons'.n <= cons.want
        /\ cons'.n = Len(delivered) - cons.base

\* C11: a Read with a buffer of at least one byte that returns nil returns
\* a count between 1 and the length of its buffer, no larger than the
\* number of bytes the ring held when it copied them out; it never returns
\* (0, nil).
ReadCount == [][ReadCountStep]_vars

ReadCountWitness ==
  /\ cons.op = "read"
  /\ cons.pc = "ret"
  /\ cons.err = NoErr
  /\ cons.n = 1
  /\ size = 2
  /\ free = 1
  /\ committed = 3

\* C12: a Read that starts with outQuit closed returns (0, ErrClosedPipe)
\* in that step, whatever the ring holds, and changes neither free, the
\* cursors, the buffer nor the wake channels, and delivers nothing.
ReadAfterReaderCloseStep ==
  (cons.pc \in {"idle", "ret"} /\ cons' # cons /\ cons'.op = "read"
     /\ outQuit) =>
     /\ cons'.pc = "ret"
     /\ cons'.n = 0
     /\ cons'.err = ErrClosedPipe
     /\ UNCHANGED <<free, inPos, outPos, buffer, inWake, outWake, delivered>>

ReadAfterReaderClose == [][ReadAfterReaderCloseStep]_vars

ReadAfterReaderCloseWitness ==
  /\ cons.op = "read"
  /\ cons.pc = "ret"
  /\ cons.oq0
  /\ cons.err = ErrClosedPipe
  /\ hist.rclosed
  /\ size = 2
  /\ free = 0
  /\ prod.pc = "ret"

\* C13: a consumer call that started after the reader's Close returned
\* hands no byte to the consumer side, be it Read or WriteTo.
ReaderCloseDrops == cons.rc0 => Len(delivered) = cons.base

\* a call of outputClose: the reader's Close, or the consumer reaching the
\* end of the stream
OutputCloseCalled ==
  \/ hist'.rclosed # hist.rclosed
  \/ hist'.reclosed # hist.reclosed
  \/ (cons.pc = "eof" /\ cons' # cons)

CloseReaderIdempotentStep ==
  /\ outQuit => outQuit'
  /\ (panicked' /\ ~panicked) => wcl' = "panic"
  /\ (outQuit /\ OutputCloseCalled) =>
        UNCHANGED <<outQuit, panicked, inQuit, inErr, free, inPos, outPos,
                    buffer, inWake, outWake, prod, committed, delivered>>

\* C14: closing the reader again, or while the consumer reaches the end of
\* the stream, never panics, leaves outQuit closed and changes nothing that
\* either end can see: outQuit is closed exactly once.
CloseReaderIdempotent == [][CloseReaderIdempotentStep]_vars

CloseReaderIdempotentWitness ==
  /\ hist.reclosed
  /\ hist.rclosed
  /\ outQuit
  /\ ~panicked
  /\ free < size

\* C15: closing the write half again completes normally: no call of the
\* writer's Close ends in the panic of closing inQuit a second time.
CloseWriterIdempotent == wcl # "panic"

\* a step of WriteTo in which the sink was called
SinkCalled ==
  /\ cons.op = "writeTo"
  /\ cons'.op = "writeTo"
  /\ \/ Len(delivered') # Len(delivered)
     \/ hist'.sinkFaults # hist.sinkFaults

WriteToResultStep ==
  LET m == WriteToLimit(free) - outPos
      k == Len(delivered') - Len(delivered)
  IN  /\ (cons.op = "writeTo" /\ cons' # cons /\ cons'.op = "writeTo"
            /\ cons'.pc = "ret" /\ cons'.err = NoErr) =>
            /\ cons.pc = "eof"
            /\ inQuit
            /\ inErr = EOF
            /\ cons'.n = Len(delivered) - cons.base
      /\ (cons.op = "writeTo" /\ cons.pc # "eof" /\ cons'.pc = "eof") =>
            free = size /\ inQuit
      /\ SinkCalled =>
            /\ m >= 1 /\ k <= m
            /\ cons'.n = cons.n + k
            /\ cons'.serr # NoErr =>
                  cons'.pc = "ret" /\ cons'.err = cons'.serr
            /\ (cons'.serr = NoErr /\ k < m) =>
                  cons'.pc = "ret" /\ cons'.err = ErrShortWrite
            /\ (cons'.serr = NoErr /\ k = m) => cons'.pc = "adv"

\* C16: WriteTo returns nil only by finding the ring empty after the writer
\* closed with io.EOF; a sink that reports an error has that error returned
\* unchanged; a sink that accepts less than offered without an error makes
\* WriteTo return io.ErrShortWrite.
WriteToResult == [][WriteToResultStep]_vars

WriteToResultWitness ==
  /\ cons.op = "writeTo"
  /\ cons.pc = "ret"
  /\ cons.serr = SinkErr
  /\ cons.err = SinkErr
  /\ cons.n = 1
  /\ size = 2
  /\ free = 0
  /\ outPos = 0

\* C17: a Copy whose sink accepted less than it was offered without reporting
\* an error, the source being faultless, returns io.ErrShortWrite.
CopyShortWrite ==
  (main.pc = "ret" /\ cons.err = ErrShortWrite /\ hist.src # "err") =>
     main.err = ErrShortWrite

\* C18: a Copy whose sink reported an error returns the sink's error, whether
\* or not the source reported one as well, before or after.
CopySinkErrorDominates ==
  (main.pc = "ret" /\ cons.err = SinkErr) => main.err = SinkErr

\* C19: a Copy in which the source or the sink reported an error returns the
\* one that was reported first.
CopyFirstError ==
  (main.pc = "ret" /\ hist.first # NoErr) => main.err = hist.first

\* C20: a Copy whose sink took every write in full returns (k, E), k the
\* number of bytes the source handed out and E the error the source ended
\* with (nil for io.EOF), and the sink holds exactly those k bytes in order.
CopySourceError ==
  (CopyDone /\ hist.sinkFaults = 0) =>
     /\ hist.src \in {"eof", "err"}
     /\ main.err = (IF hist.src = "err" THEN SrcErr ELSE NoErr)
     /\ prod.pc = "ret"
     /\ main.n = committed
     /\ delivered = Accepted

CopySourceErrorWitness ==
  /\ CopyDone
  /\ hist.sinkFaults = 0
  /\ hist.src = "err"
  /\ main.err = SrcErr
  /\ size = 2
  /\ main.n = MaxBytes
  /\ Len(delivered) = MaxBytes

\* C21: the count a Copy returns is the number of bytes its sink accepted
\* over all the writes made to it, those of a failing or short write
\* included, whatever the outcome.
CopyCount == CopyDone => main.n = Len(delivered)

CopyCountWitness ==
  /\ CopyDone
  /\ cons.err = SinkErr
  /\ size = 2
  /\ free = 0
  /\ main.n = 1
  /\ Len(delivered) = 1

\* C22: when Copy has returned both of its goroutines have ended: neither
\* can take another step, so the source is not read and the sink not written
\* any more, and the count and the error returned are the final ones.
CopyJoins ==
  CopyDone =>
     /\ prod.pc = "ret"
     /\ cons.pc = "ret"
     /\ ~ENABLED CopyInStep
     /\ ~ENABLED CopyOutStep
     /\ main.n = cons.n
     /\ main.err = failure

CopyJoinsWitness ==
  /\ CopyDone
  /\ cons.err = SinkErr
  /\ hist.src = "open"
  /\ prod.pc = "ret"
  /\ free = 0

\* the writer goroutine of Copy ended on a failing or short write
CopySinkFailed == mode = "copy" /\ cons.err \in {SinkErr, ErrShortWrite}

\* C23: a writer goroutine that ends on a failing or short write has closed
\* outQuit, and under fair scheduling the Copy then returns: the reader
\* goroutine, parked on a full ring or not, ends as well.
CopyFailingSinkTerminates ==
  /\ [](CopySinkFailed => outQuit)
  /\ [](CopySinkFailed => <>(CopyDone /\ prod.pc = "ret"))

CopyFailingSinkWitness ==
  /\ CopySinkFailed
  /\ cons.err = ErrShortWrite
  /\ prod.pc = "select"
  /\ free = 0
  /\ inWake = 0
  /\ ~inQuit
  /\ hist.src = "open"

\* C24: in a Copy whose sink takes its writes, every byte a src.Read has
\* returned is eventually handed to the sink, even if the reader goroutine
\* never gets another src.Read to return: the writer goroutine waits neither
\* for the ring to fill nor for the source to end.
CopyNoStall ==
  \A k \in 1..MaxBytes :
     [](mode = "copy" /\ Produced >= k
          => <>(Len(delivered) >= k \/ hist.sinkFaults > 0))

CopyNoStallWitness ==
  /\ mode = "copy"
  /\ size = 2
  /\ hist.src = "open"
  /\ hist.sinkFaults = 0
  /\ prod.pc = "load"
  /\ committed = 1
  /\ free = 1
  /\ delivered = <<>>
  /\ cons.pc = "select"
  /\ outWake = 1

\* C25: a Close of the write half that waits while the ring has been read
\* empty and no call is in flight on either end eventually returns.
WriterCloseCompletes ==
  []((/\ wcl = "wait"
      /\ free = size
      /\ prod.pc \in {"idle", "ret"}
      /\ cons.pc \in {"idle", "ret"}) => <>(wcl = "ret"))

\* C26: a Write that fails because the read half was closed with an error
\* returns that error.
WriteReturnsReaderError ==
  (/\ prod.op = "write"
   /\ prod.pc = "ret"
   /\ prod.err # NoErr
   /\ ~prod.iq0
   /\ ~inQuit
   /\ outErr # NoErr) => prod.err = outErr

\* the bytes committed and not yet copied out, by their value
Unread == (Len(delivered) + 1)..committed

RegionDisjointStep ==
  /\ \A c \in DOMAIN buffer :
        buffer'[c] # buffer[c] =>
           /\ buffer[c] \notin Unread
           /\ buffer'[c] > committed
  /\ \A j \in (Len(delivered) + 1)..Len(delivered') :
        delivered'[j] = j /\ j <= committed
  /\ (prod.pc = "copy" /\ prod' # prod) =>
        /\ prod.sf >= 1 /\ prod.sf <= free
        /\ prod'.nr >= 1 /\ prod'.nr <= prod.sf
  /\ (cons.pc = "copy" /\ cons' # cons) =>
        /\ prod.pc # "adv" => size - cons.sf <= size - free
        /\ cons'.nw >= 1 /\ cons'.nw <= size - cons.sf

\* C27: with the copy sized by a value of free loaded earlier, Write never
\* overwrites a byte that is committed and not yet read, and Read copies out
\* only bytes that were committed, the next ones of the stream in order: the
\* slices never overlap, whatever the other side did since the load.
RegionDisjoint == [][RegionDisjointStep]_vars

RegionDisjointWitness ==
  /\ mode = "st"
  /\ size = 2
  /\ cons.pc = "adv"
  /\ cons.nw = 1
  /\ cons.want = 2
  /\ outPos = 0
  /\ free = 0
  /\ delivered = <<1>>

\* a thread in its select although the ring is usable again
ProducerOvertaken == prod.pc = "select" /\ free > 0
ConsumerOvertaken == cons.pc = "select" /\ free < size

NoLostWakeStep ==
  /\ (prod.pc = "select" /\ inWake = 1 /\ inWake' = 0) =>
        prod'.pc = "load" /\ UNCHANGED <<buffer, free, inPos, committed>>
  /\ (prod.pc \in {"load", "spin"} /\ free = 0 /\ prod' # prod) =>
        /\ prod'.pc \in {"spin", "select"}
        /\ UNCHANGED <<buffer, free, inPos, committed>>
  /\ (cons.pc = "select" /\ outWake = 1 /\ outWake' = 0) =>
        cons'.pc = "load" /\ UNCHANGED <<delivered, free, outPos>>
  /\ (cons.pc \in {"load", "spin"} /\ free = size /\ cons' # cons) =>
        /\ cons'.pc \in {"spin", "select"}
        /\ UNCHANGED <<delivered, free, outPos>>

\* C28: a thread that found the ring unusable and went into its select is
\* never left there once the other side has advanced: the advance is
\* followed by a wake token (or a quit channel is closed), and the thread
\* leaves the select.  A token received while the ring is still unusable
\* leads to a reload and another wait, never to a copy.
NoLostWake ==
  /\ [](ProducerOvertaken =>
          inWake = 1 \/ cons.pc = "sig" \/ inQuit \/ outQuit)
  /\ [](ConsumerOvertaken =>
          outWake = 1 \/ prod.pc = "sig" \/ inQuit \/ outQuit)
  /\ [](ProducerOvertaken => <>(prod.pc # "select"))
  /\ [](ConsumerOvertaken => <>(cons.pc # "select"))
  /\ [][NoLostWakeStep]_vars

NoLostWakeWitness ==
  /\ ProducerOvertaken
  /\ inWake = 1
  /\ cons.pc = "ret"
  /\ prod.b >= 1
  /\ ~inQuit
  /\ ~outQuit

\* the number of occupied cells
Occupied == size - free

\* C29: inPos is outPos plus the occupied cells, modulo size; when the
\* consumer is not between a copy and its advance, the occupied cells
\* [outPos, outPos + Occupied) mod size hold exactly the bytes committed and
\* not yet consumed, in order, and there are committed minus consumed of them.
CursorOccupancy ==
  /\ inPos = (outPos + Occupied) % size
  /\ cons.pc # "adv" =>
        /\ Occupied = committed - Len(delivered)
        /\ \A j \in 1..Occupied :
              buffer[(outPos + j - 1) % size] = Len(delivered) + j

\* C30: a WriteTo that has returned has counted every byte its sink
\* accepted and has advanced the ring past every one of them: what is left
\* occupied is what was committed and not handed to the sink.
WriteToAccounts ==
  (cons.op = "writeTo" /\ cons.pc = "ret") =>
     /\ cons.n = Len(delivered) - cons.base
     /\ Occupied = committed - Len(delivered)

ReadFromAccountsStep ==
  /\ (prod.op = "readFrom" /\ prod.pc = "adv" /\ prod' # prod) =>
        /\ \A j \in 0..(prod.nr - 1) : buffer[inPos + j] = committed + 1 + j
        /\ committed' = committed + prod.nr
        /\ free' = free - prod.nr
        /\ inPos' = Wrap(inPos + prod.nr)
        /\ prod'.pc = "sig"
        /\ prod'.rerr = prod.rerr
  /\ (prod.op = "readFrom" /\ prod.pc = "sig" /\ prod' # prod) =>
        /\ outWake' = 1
        /\ prod.rerr = NoErr => prod'.pc = "load"
        /\ prod.rerr # NoErr =>
              /\ prod'.pc = "ret"
              /\ prod'.err = (IF prod.rerr = EOF THEN NoErr ELSE prod.rerr)
              /\ prod'.n = prod.n

\* C31: the bytes a source hands to ReadFrom together with io.EOF or an
\* error are committed like any others (cursor and free advanced, the
\* consumer signalled) before ReadFrom returns nil or that error, and the
\* count ReadFrom returns is the number of bytes it committed.
ReadFromAccounts ==
  /\ []((prod.op = "readFrom" /\ prod.pc = "ret") =>
           prod.n = committed - prod.base)
  /\ [][ReadFromAccountsStep]_vars

ReadFromAccountsWitness ==
  /\ prod.op = "readFrom"
  /\ prod.pc = "ret"
  /\ prod.err = SrcErr
  /\ prod.n = 1
  /\ size = 1
  /\ free = 0
  /\ outWake = 1
  /\ delivered = <<>>

WriterCloseBlockingStep ==
  /\ (wcl = "check" /\ wcl' # wcl) =>
        /\ inQuit
        /\ wcl' = (IF free = size THEN "ret" ELSE "wait")
  /\ (wcl = "wait" /\ wcl' # wcl) => outQuit /\ wcl' = "ret"
  /\ wcl' # wcl => outQuit' = outQuit

\* C32: once it has closed inQuit the writer's Close returns at once if it
\* finds the ring empty; otherwise it returns when outQuit is closed and not
\* before, so at once if the reader was closed already.  It never closes
\* outQuit itself.
WriterCloseBlocking ==
  /\ [][WriterCloseBlockingStep]_vars
  /\ [](wcl = "wait" => (outQuit <=> ENABLED WriterCloseWait))

WriterCloseBlockingWitness ==
  /\ wcl = "wait"
  /\ inQuit
  /\ outQuit
  /\ hist.rclosed
  /\ ~hist.reclosed
  /\ free = 0
  /\ size = 2

\* C33: the bytes taken from the producer or source and not yet taken by the
\* consumer or sink number between 0 and size, in every reachable state.
BackPressureBound ==
  /\ free \in 0..size
  /\ 0 <= committed - Len(delivered)
  /\ Produced - Len(delivered) <= size

\* the slices the ring arithmetic allows at the current value of free
InSlice == Min(size - inPos, free)
OutSlice == Min(size - outPos, size - free)

SliceSelectionStep ==
  /\ (mode # "st" /\ prod.pc # "adv" /\ prod'.pc = "adv") =>
        /\ InSlice >= 1
        /\ prod.op = "write" => prod'.nr = Min(InSlice, prod.b)
        /\ prod.op = "readFrom" =>
              /\ ReadFromLimit(free) - inPos = InSlice
              /\ prod'.nr <= InSlice
        /\ prod.op = "copy" => prod'.nr <= InSlice
        /\ \A c \in DOMAIN buffer :
              buffer'[c] # buffer[c] => inPos <= c /\ c < inPos + InSlice
  /\ (mode # "st" /\ cons' # cons
        /\ (delivered' # delivered \/ hist'.sinkFaults # hist.sinkFaults)) =>
        /\ OutSlice >= 1
        /\ Len(delivered') - Len(delivered) <= OutSlice
        /\ delivered' =
             delivered \o Cells(outPos, Len(delivered') - Len(delivered))
        /\ cons.op = "read" =>
              cons'.pc = "adv" /\ cons'.nw = Min(OutSlice, cons.want)
        /\ cons.op = "writeTo" => WriteToLimit(free) - outPos = OutSlice
        /\ (cons.op # "read" /\ cons'.pc = "adv") => cons'.nw = OutSlice

\* C34: every src.Read gets a non-empty slice at inPos no longer than
\* min(size - inPos, free); Write copies min(size - inPos, free, remaining)
\* bytes; every sink Write gets the non-empty slice at outPos of
\* min(size - outPos, size - free) bytes and Read copies that many, cut to
\* its buffer: no slice crosses the end of the buffer.
SliceSelection == [][SliceSelectionStep]_vars

SliceSelectionWitness ==
  /\ prod.op = "write"
  /\ prod.pc = "adv"
  /\ prod.nr = 1
  /\ prod.b = 1
  /\ inPos = 1
  /\ size = 2
  /\ free = 2

\* a sum that int32 holds as it is
Exact(a) == Int32(a) = a

\* C35: on a ring of up to 2^31 - 1 cells the sums that size the slices of
\* Write and Read are exact in int32, and the limit computed lies between
\* the cursor and the capacity, so no slice expression panics.
NoIndexOverflow ==
  mode = "i32" =>
     /\ ~panicked
     /\ prod.op = "write" =>
           /\ Exact(WAdd(prod.base, prod.sf))
           /\ Exact(WAdd(prod.base, prod.b))
           /\ ~WLess(prod.nr, WZero)
           /\ ~WLess(size, WAdd(prod.base, prod.nr))
     /\ cons.op = "read" =>
           /\ Exact(WAdd(cons.base, size))
           /\ Exact(WSub(WAdd(cons.base, size), cons.sf))
           /\ Exact(WAdd(cons.base, cons.want))
           /\ ~WLess(cons.nw, WZero)
           /\ ~WLess(size, WAdd(cons.base, cons.nw))

\* how the sink failed, if it did: the error it reported, or a short write
SinkOutcome ==
  IF hist.sinkFaults = 0 THEN NoErr
  ELSE IF mode = "copy" THEN cons.err
  ELSE IF cons.serr # NoErr THEN cons.serr ELSE ErrShortWrite

\* what WriteTo returns when ReadFrom and the close of the write half feed
\* it: the bytes the sink took, and the sink's failure or else the error
\* the source ended with
PairResult ==
  <<Len(delivered),
    IF SinkOutcome # NoErr THEN SinkOutcome
    ELSE IF hist.src = "err" THEN SrcErr ELSE NoErr>>

\* the WriteTo of the pair returns PairResult
PairReturns ==
  (mode = "pp" /\ cons.pc = "ret") => <<cons.n, cons.err>> = PairResult

\* C36: for the same behaviour of source and sink, errors and short writes
\* included, Copy returns the count and the status that WriteTo returns
\* when ReadFrom and a close of the write half with its result feed it.
CopyRefinesPipe ==
  /\ PairReturns
  /\ (mode = "copy" /\ CopyDone) => <<main.n, main.err>> = PairResult

\* a step of a Write or ReadFrom leaves inQuit, outQuit and inErr alone; a
\* step of a Read or WriteTo leaves inQuit and inErr alone, comes to the
\* end of the stream (pc "eof") only by loading free = size behind a closed
\* inQuit, and raises outQuit only from there, returning the writer's error
CloseFrameStep ==
  mode # "copy" =>
     /\ prod' # prod =>
           /\ inQuit' = inQuit
           /\ outQuit' = outQuit
           /\ inErr' = inErr
     /\ cons' # cons =>
           /\ inQuit' = inQuit
           /\ inErr' = inErr
           /\ (cons'.pc = "eof" /\ cons.pc # "eof") =>
                 /\ inQuit
                 /\ free = size
           /\ outQuit' # outQuit =>
                 /\ ~outQuit
                 /\ cons.pc = "eof"
                 /\ inQuit
                 /\ cons'.pc = "ret"
                 /\ cons'.err = (IF cons.op = "writeTo" /\ inErr = EOF
                                 THEN NoErr ELSE inErr)

\* C37: the close state changes only through the close operations and the
\* consumer's end of stream: Write and ReadFrom never raise inQuit or
\* outQuit and never change inErr; Read and WriteTo never raise inQuit, and
\* raise outQuit only in the step that ends the stream with the writer's
\* error, the ring empty and inQuit raised.
CloseFrame == [][CloseFrameStep]_vars

CloseFrameWitness ==
  /\ mode = "rw"
  /\ outQuit
  /\ ~hist.rclosed
  /\ cons.pc = "ret"
  /\ cons.err = WCloseErr
  /\ Len(delivered) >= 1
  /\ prod.pc = "ret"

\* C38: the status a Read or WriteTo returns is a function of the pipe
\* state it observes: a call waiting on an empty ring with both inQuit and
\* outQuit closed has one way on, so it cannot return the writer's error
\* (io.EOF, nil) in one run and ErrClosedPipe in another.
ConsumerStatusDetermined ==
  (mode # "copy" /\ cons.pc = "select" /\ free = size /\ inQuit /\ outQuit) =>
     ~(ENABLED OutputWaitInQuit /\ ENABLED OutputWaitOutQuit)

\* C39: a Write or ReadFrom that starts after the writer's close has raised
\* inQuit commits no byte (free and inPos stay as they are, the source is
\* not read) and returns ErrClosedPipe with a count of zero.
NoCommitAfterWriterClose ==
  (mode # "copy" /\ prod.iq0) =>
     /\ committed = prod.base
     /\ prod.pc = "ret" => (prod.n = 0 /\ prod.err = ErrClosedPipe)
====
